---- MODULE Spec2Model ----
(***************************************************************************)
(* A model of features_3d/scene.py: the AgriculturalScene orchestrator.    *)
(*                                                                         *)
(* Numbers are integers.  Angles are counted in quarter turns (units of    *)
(* pi/2), where cosine and sine are exactly -1, 0 or 1, so every matrix    *)
(* the program builds from the modelled poses is an integer matrix and     *)
(* its inverse is an integer matrix too.  Points are 3-tuples, matrices    *)
(* are 4-tuples of rows.  A Python list is a sequence; Python's index i    *)
(* is the sequence's index i+1.                                            *)
(*                                                                         *)
(* The collaborators GroundPlane, CornCrop and CornCropGroup are not part  *)
(* of scene.py.  What they compute (principal components, plane            *)
(* coefficients, vector angles, emerging point, voxel downsampling) is     *)
(* kept as a term that records the operation and the arguments it read,    *)
(* so that "feature f was computed from point set p" is a checkable fact.  *)
(***************************************************************************)
EXTENDS Integers, Sequences, FiniteSets, TLC

VARIABLES
    index,          \* self.index
    extrinsics,     \* self.extrinsics: None or a 4x4 matrix
    ground_plane,   \* self.ground_plane: record of ps_3d and derived features
    crop_group,     \* self.crop_group.crops: sequence of crop records
    call,           \* history: the last public call, its arguments and outcome
    pre,            \* history: the scene as it was when the last call started
    orig,           \* history: the point sets at construction / last downsample
    k,              \* history: completed add_extrinsics_information calls since orig
    ncalls          \* history: number of scene-mutating calls made so far

vars == <<index, extrinsics, ground_plane, crop_group, call, pre, orig, k, ncalls>>

\* Bound on the number of add_extrinsics_information / downsample calls.
MaxCalls == 3

\* Python's None (an absent value)
None == <<>>

-----------------------------------------------------------------------------
(* Linear algebra on integer matrices, as numpy's @, np.linalg.inv do it.   *)

Identity4 == <<<<1, 0, 0, 0>>, <<0, 1, 0, 0>>, <<0, 0, 1, 0>>, <<0, 0, 0, 1>>>>

Dot3(a, b) == a[1] * b[1] + a[2] * b[2] + a[3] * b[3]
Dot4(a, b) == a[1] * b[1] + a[2] * b[2] + a[3] * b[3] + a[4] * b[4]
Col3(B, j) == <<B[1][j], B[2][j], B[3][j]>>
Col4(B, j) == <<B[1][j], B[2][j], B[3][j], B[4][j]>>
RowMul3(a, B) == <<Dot3(a, Col3(B, 1)), Dot3(a, Col3(B, 2)), Dot3(a, Col3(B, 3))>>
RowMul4(a, B) ==
    <<Dot4(a, Col4(B, 1)), Dot4(a, Col4(B, 2)), Dot4(a, Col4(B, 3)), Dot4(a, Col4(B, 4))>>

\* numpy's A @ B on two 3x3 matrices
MatMul3(A, B) == <<RowMul3(A[1], B), RowMul3(A[2], B), RowMul3(A[3], B)>>

\* numpy's A @ B on two 4x4 matrices
MatMul4(A, B) == <<RowMul4(A[1], B), RowMul4(A[2], B), RowMul4(A[3], B), RowMul4(A[4], B)>>

\* numpy's M @ v on a 4x4 matrix and a 4-vector
MatVec4(M, v) == <<Dot4(M[1], v), Dot4(M[2], v), Dot4(M[3], v), Dot4(M[4], v)>>

Det3(A) ==
      A[1][1] * (A[2][2] * A[3][3] - A[2][3] * A[3][2])
    - A[1][2] * (A[2][1] * A[3][3] - A[2][3] * A[3][1])
    + A[1][3] * (A[2][1] * A[3][2] - A[2][2] * A[3][1])

\* the adjugate (transposed cofactor matrix) of a 3x3 matrix
Adj3(A) ==
    <<<<A[2][2] * A[3][3] - A[2][3] * A[3][2],
        A[1][3] * A[3][2] - A[1][2] * A[3][3],
        A[1][2] * A[2][3] - A[1][3] * A[2][2]>>,
      <<A[2][3] * A[3][1] - A[2][1] * A[3][3],
        A[1][1] * A[3][3] - A[1][3] * A[3][1],
        A[1][3] * A[2][1] - A[1][1] * A[2][3]>>,
      <<A[2][1] * A[3][2] - A[2][2] * A[3][1],
        A[1][2] * A[3][1] - A[1][1] * A[3][2],
        A[1][1] * A[2][2] - A[1][2] * A[2][1]>>>>

\* np.linalg.inv on a matrix [A | t; 0 0 0 1]: raises LinAlgError when singular,
\* else [A^-1 | -A^-1 t; 0 0 0 1].  The quotients are exact: the matrices the
\* program inverts here have determinant 1 or -1.
Inv(M) ==
    LET A == <<SubSeq(M[1], 1, 3), SubSeq(M[2], 1, 3), SubSeq(M[3], 1, 3)>>
        d == Det3(A)
        adj == Adj3(A)
        Ai == <<<<adj[1][1] \div d, adj[1][2] \div d, adj[1][3] \div d>>,
                <<adj[2][1] \div d, adj[2][2] \div d, adj[2][3] \div d>>,
                <<adj[3][1] \div d, adj[3][2] \div d, adj[3][3] \div d>>>>
        t == <<M[1][4], M[2][4], M[3][4]>>
    IN  IF d = 0
        THEN [outcome |-> "LinAlgError", value |-> None]
        ELSE [outcome |-> "ok",
              value |-> <<Ai[1] \o <<-Dot3(Ai[1], t)>>,
                          Ai[2] \o <<-Dot3(Ai[2], t)>>,
                          Ai[3] \o <<-Dot3(Ai[3], t)>>,
                          <<0, 0, 0, 1>>>>]

\* np.cos and np.sin of q quarter turns
Cos(q) == CASE q % 4 = 0 -> 1 [] q % 4 = 1 -> 0 [] q % 4 = 2 -> -1 [] OTHER -> 0
Sin(q) == CASE q % 4 = 0 -> 0 [] q % 4 = 1 -> 1 [] q % 4 = 2 -> 0 [] OTHER -> -1

-----------------------------------------------------------------------------
(* get_transformation_matrix                                                *)

R_yaw(rotation) ==
    <<<<Cos(rotation[3]), -Sin(rotation[3]), 0>>,
      <<Sin(rotation[3]), Cos(rotation[3]), 0>>,
      <<0, 0, 1>>>>

R_pitch(rotation) ==
    <<<<Cos(rotation[2]), 0, Sin(rotation[2])>>,
      <<0, 1, 0>>,
      <<-Sin(rotation[2]), 0, Cos(rotation[2])>>>>

R_roll(rotation) ==
    <<<<1, 0, 0>>,
      <<0, Cos(rotation[1]), -Sin(rotation[1])>>,
      <<0, Sin(rotation[1]), Cos(rotation[1])>>>>

\* Mutant: the elementary rotations composed in the opposite order.
get_transformation_matrix_RollFirst(translation, rotation) ==
    IF Len(rotation) < 3 \/ Len(translation) < 3
    THEN [outcome |-> "IndexError", value |-> None]
    ELSE LET R == MatMul3(MatMul3(R_roll(rotation), R_pitch(rotation)), R_yaw(rotation))
         IN  [outcome |-> "ok",
              value |-> <<R[1] \o <<translation[1]>>,
                          R[2] \o <<translation[2]>>,
                          R[3] \o <<translation[3]>>,
                          <<0, 0, 0, 1>>>>]

\* rotation[2], rotation[1], rotation[0] and translation[0..2] are read by
\* index: a list that is too short raises IndexError before anything is built.
get_transformation_matrix(translation, rotation) ==
    IF Len(rotation) < 3 \/ Len(translation) < 3
    THEN [outcome |-> "IndexError", value |-> None]
    ELSE LET R == MatMul3(MatMul3(R_yaw(rotation), R_pitch(rotation)), R_roll(rotation))
         IN  [outcome |-> "ok",
              value |-> <<R[1] \o <<translation[1]>>,
                          R[2] \o <<translation[2]>>,
                          R[3] \o <<translation[3]>>,
                          <<0, 0, 0, 1>>>>]

-----------------------------------------------------------------------------
(* _apply_extrinsics_to_3D_vector                                           *)

\* numpy's a / w.  The quotient is exact for the matrices of this model, whose
\* bottom rows make the homogeneous component 1 or -1.
Quot(a, w) == IF w < 0 THEN (-a) \div (-w) ELSE a \div w

\* Mutant: the perspective division left out.
apply_extrinsics_to_3D_vector_NoDivision(vector_3d, ext) ==
    LET ext_hom_3d == MatVec4(ext, vector_3d \o <<1>>)
    IN  <<ext_hom_3d[1], ext_hom_3d[2], ext_hom_3d[3]>>

apply_extrinsics_to_3D_vector(vector_3d, ext) ==
    LET ext_hom_3d == MatVec4(ext, vector_3d \o <<1>>)
    IN  <<Quot(ext_hom_3d[1], ext_hom_3d[4]),
          Quot(ext_hom_3d[2], ext_hom_3d[4]),
          Quot(ext_hom_3d[3], ext_hom_3d[4])>>

\* the loops "for i in range(len(ps_3d)): ps_3d[i] = apply(ps_3d[i], extrinsics)"
TransformPoints(ps_3d, ext) ==
    [i \in 1..Len(ps_3d) |-> apply_extrinsics_to_3D_vector(ps_3d[i], ext)]

-----------------------------------------------------------------------------
(* Derived features                                                         *)

RECURSIVE SumPoints(_)
SumPoints(ps) ==
    IF ps = <<>> THEN <<0, 0, 0>>
    ELSE LET s == SumPoints(Tail(ps))
         IN  <<ps[1][1] + s[1], ps[1][2] + s[2], ps[1][3] + s[3]>>

\* np.average(ps_3d, axis=0): the mean, kept as the exact fraction sum / n
Average(ps_3d) == [sum |-> SumPoints(ps_3d), n |-> Len(ps_3d)]

\* np.cross(a, b) of two principal directions
Cross(a, b) == [cross |-> <<a, b>>]

\* GroundPlane._get_principal_components: the two dominant directions of the
\* point set; a point set with fewer than 2 points is a numerical degeneracy.
get_principal_components(ps_3d) ==
    IF Len(ps_3d) < 2
    THEN [outcome |-> "NumericalDegeneracy", value |-> None]
    ELSE [outcome |-> "ok",
          value |-> <<[pc |-> 1, of |-> ps_3d], [pc |-> 2, of |-> ps_3d]>>]

\* GroundPlane._get_plane_coefficients: the plane through point with that normal
get_plane_coefficients(normal_vector, average_point) ==
    [plane_normal |-> normal_vector, plane_point |-> average_point]

\* CornCrop._get_principal_component: the dominant direction of the point set
get_principal_component(ps_3d) ==
    IF Len(ps_3d) < 2
    THEN [outcome |-> "NumericalDegeneracy", value |-> None]
    ELSE [outcome |-> "ok", value |-> [pc |-> 1, of |-> ps_3d]]

\* CornCrop._get_vector_angles: the angles of the vector against the axes
get_vector_angles(crop_vector) == [angles_of |-> crop_vector]

\* CornCrop.find_emerging_point: where the crop's line meets the ground plane
find_emerging_point(crop, gp) ==
    [line_point |-> crop.average_point,
     line_vector |-> crop.crop_vector,
     plane_coeficients |-> gp.coeficients,
     plane_normal |-> gp.normal_vector]

\* The features a ground plane with these points has when all were computed
\* from them (what the collaborator's constructor leaves).
GroundPlaneOf(ps_3d) ==
    LET gv == get_principal_components(ps_3d).value
        nv == Cross(gv[1], gv[2])
    IN  [ps_3d |-> ps_3d,
         average_point |-> Average(ps_3d),
         ground_vectors |-> gv,
         normal_vector |-> nv,
         coeficients |-> get_plane_coefficients(nv, Average(ps_3d))]

\* The features a crop with these points has over ground plane gp.
CropOf(ps_3d, gp) ==
    LET c == [ps_3d |-> ps_3d,
              average_point |-> Average(ps_3d),
              crop_vector |-> get_principal_component(ps_3d).value,
              crop_vector_angles |->
                  get_vector_angles(get_principal_component(ps_3d).value)]
    IN  [ps_3d |-> c.ps_3d,
         average_point |-> c.average_point,
         crop_vector |-> c.crop_vector,
         crop_vector_angles |-> c.crop_vector_angles,
         emerging_point |-> find_emerging_point(c, gp)]

-----------------------------------------------------------------------------
(* Voxel-grid downsampling of the collaborators                             *)

Cell(p, size) == <<p[1] \div size, p[2] \div size, p[3] \div size>>

\* The points of ps_3d, one per occupied cell of the grid: the first point of
\* the sequence that falls in the cell represents it.
VoxelDownSample(ps_3d, size) ==
    SelectSeq(
        [i \in 1..Len(ps_3d) |->
            IF \E j \in 1..(i - 1) : Cell(ps_3d[j], size) = Cell(ps_3d[i], size)
            THEN <<>> ELSE ps_3d[i]],
        LAMBDA p : Len(p) = 3)

\* GroundPlane.downsample: replaces the points, recomputes nothing
GroundPlaneDownsample(gp, size) ==
    [gp EXCEPT !.ps_3d = VoxelDownSample(gp.ps_3d, size)]

\* CornCropGroup.downsample: downsamples every crop, recomputes nothing
CropGroupDownsample(crops, size) ==
    [i \in 1..Len(crops) |->
        [crops[i] EXCEPT !.ps_3d = VoxelDownSample(crops[i].ps_3d, size)]]

-----------------------------------------------------------------------------
(* add_extrinsics_information                                               *)

\* Mutant: the cache test left out, the matrix recomputed on every call.
ComputeExtrinsics_Always(ext, pos_world_body, orient_world_body, pos_camera_body, orient_camera_body) ==
    LET t_world_body == get_transformation_matrix(pos_world_body, orient_world_body)
        t_camera_body == get_transformation_matrix(pos_camera_body, orient_camera_body)
        t_body_camera == Inv(t_camera_body.value)
    IN  IF t_world_body.outcome # "ok" THEN [outcome |-> "IndexError", value |-> ext]
        ELSE IF t_camera_body.outcome # "ok" THEN [outcome |-> "IndexError", value |-> ext]
        ELSE IF t_body_camera.outcome # "ok" THEN [outcome |-> "LinAlgError", value |-> ext]
        ELSE [outcome |-> "ok", value |-> MatMul4(t_world_body.value, t_body_camera.value)]

\* Mutant: the product taken in the opposite order.
ComputeExtrinsics_Swapped(ext, pos_world_body, orient_world_body, pos_camera_body, orient_camera_body) ==
    IF ext # None THEN [outcome |-> "ok", value |-> ext]
    ELSE
    LET t_world_body == get_transformation_matrix(pos_world_body, orient_world_body)
        t_camera_body == get_transformation_matrix(pos_camera_body, orient_camera_body)
        t_body_camera == Inv(t_camera_body.value)
    IN  IF t_world_body.outcome # "ok" THEN [outcome |-> "IndexError", value |-> ext]
        ELSE IF t_camera_body.outcome # "ok" THEN [outcome |-> "IndexError", value |-> ext]
        ELSE IF t_body_camera.outcome # "ok" THEN [outcome |-> "LinAlgError", value |-> ext]
        ELSE [outcome |-> "ok", value |-> MatMul4(t_body_camera.value, t_world_body.value)]

\* Mutant: self.extrinsics assigned the world-body transform first and completed
\* with the camera part afterwards, so a failing camera pose leaves it set.
ComputeExtrinsics_EarlyAssign(ext, pos_world_body, orient_world_body, pos_camera_body, orient_camera_body) ==
    IF ext # None THEN [outcome |-> "ok", value |-> ext]
    ELSE
    LET t_world_body == get_transformation_matrix(pos_world_body, orient_world_body)
        t_camera_body == get_transformation_matrix(pos_camera_body, orient_camera_body)
        t_body_camera == Inv(t_camera_body.value)
    IN  IF t_world_body.outcome # "ok" THEN [outcome |-> "IndexError", value |-> ext]
        ELSE IF t_camera_body.outcome # "ok"
             THEN [outcome |-> "IndexError", value |-> t_world_body.value]
        ELSE IF t_body_camera.outcome # "ok"
             THEN [outcome |-> "LinAlgError", value |-> t_world_body.value]
        ELSE [outcome |-> "ok", value |-> MatMul4(t_world_body.value, t_body_camera.value)]

\* Lines 154-162.  outcome is "ok" or the exception raised; value is what
\* self.extrinsics holds when the block is left (ext itself when it raised:
\* the assignment of line 162 is the block's last statement).
ComputeExtrinsics(ext, pos_world_body, orient_world_body, pos_camera_body, orient_camera_body) ==
    IF ext # None THEN [outcome |-> "ok", value |-> ext]
    ELSE
    LET t_world_body == get_transformation_matrix(pos_world_body, orient_world_body)
        t_camera_body == get_transformation_matrix(pos_camera_body, orient_camera_body)
        t_body_camera == Inv(t_camera_body.value)
    IN  IF t_world_body.outcome # "ok" THEN [outcome |-> "IndexError", value |-> ext]
        ELSE IF t_camera_body.outcome # "ok" THEN [outcome |-> "IndexError", value |-> ext]
        ELSE IF t_body_camera.outcome # "ok" THEN [outcome |-> "LinAlgError", value |-> ext]
        ELSE [outcome |-> "ok", value |-> MatMul4(t_world_body.value, t_body_camera.value)]

\* Lines 164-185: the ground plane's points transformed, then its features
\* assigned one after the other; an exception leaves the later ones as they were.
UpdateGroundPlane(gp, ext) ==
    LET ps == TransformPoints(gp.ps_3d, ext)
        avg == Average(ps)
        gv == get_principal_components(ps)
        nv == Cross(gv.value[1], gv.value[2])
    IN  IF gv.outcome # "ok"
        THEN [outcome |-> gv.outcome,
              ground_plane |-> [gp EXCEPT !.ps_3d = ps, !.average_point = avg]]
        ELSE [outcome |-> "ok",
              ground_plane |-> [ps_3d |-> ps,
                                average_point |-> avg,
                                ground_vectors |-> gv.value,
                                normal_vector |-> nv,
                                coeficients |-> get_plane_coefficients(nv, avg)]]

\* Lines 189-200, one turn of the loop over the crops.
UpdateCrop(crop, gp, ext) ==
    LET ps == TransformPoints(crop.ps_3d, ext)
        avg == Average(ps)
        cv == get_principal_component(ps)
        c == [ps_3d |-> ps,
              average_point |-> avg,
              crop_vector |-> cv.value,
              crop_vector_angles |-> get_vector_angles(cv.value),
              emerging_point |-> crop.emerging_point]
    IN  IF cv.outcome # "ok"
        THEN [outcome |-> cv.outcome,
              crop |-> [crop EXCEPT !.ps_3d = ps, !.average_point = avg]]
        ELSE [outcome |-> "ok",
              crop |-> [c EXCEPT !.emerging_point = find_emerging_point(c, gp)]]

\* The index of the first crop whose turn raises, 0 when none does.
FirstFailingCrop(crops, gp, ext) ==
    LET bad == {i \in 1..Len(crops) : UpdateCrop(crops[i], gp, ext).outcome # "ok"}
    IN  IF bad = {} THEN 0 ELSE CHOOSE i \in bad : \A j \in bad : i <= j

\* Mutant: the crops updated before the ground plane (lines 187-200 moved
\* above line 164), so emerging points are found on the plane as it was.
UpdateScene_CropsFirst(gp, crops, ext) ==
    LET f == FirstFailingCrop(crops, gp, ext)
        cs == [i \in 1..Len(crops) |->
                 IF f = 0 \/ i <= f THEN UpdateCrop(crops[i], gp, ext).crop
                 ELSE crops[i]]
        g == UpdateGroundPlane(gp, ext)
    IN  IF f # 0
        THEN [outcome |-> "NumericalDegeneracy", ground_plane |-> gp, crops |-> cs]
        ELSE [outcome |-> g.outcome, ground_plane |-> g.ground_plane, crops |-> cs]

\* Mutant: the exceptions of the feature recomputation swallowed, the
\* remaining assignments made all the same.
UpdateScene_Swallow(gp, crops, ext) ==
    LET gps == TransformPoints(gp.ps_3d, ext)
        gv == get_principal_components(gps)
        nv == IF gv.outcome = "ok" THEN Cross(gv.value[1], gv.value[2]) ELSE None
        g == [ps_3d |-> gps,
              average_point |-> Average(gps),
              ground_vectors |-> gv.value,
              normal_vector |-> nv,
              coeficients |-> get_plane_coefficients(nv, Average(gps))]
    IN  [outcome |-> "ok",
         ground_plane |-> g,
         crops |-> [i \in 1..Len(crops) |->
                      CropOf(TransformPoints(crops[i].ps_3d, ext), g)]]

\* Lines 164-200: the ground plane first, then the crops in order; the first
\* exception ends the call and leaves everything after it untouched.
UpdateScene(gp, crops, ext) ==
    LET g == UpdateGroundPlane(gp, ext)
        f == FirstFailingCrop(crops, g.ground_plane, ext)
    IN  IF g.outcome # "ok"
        THEN [outcome |-> g.outcome, ground_plane |-> g.ground_plane, crops |-> crops]
        ELSE [outcome |-> IF f = 0 THEN "ok" ELSE "NumericalDegeneracy",
              ground_plane |-> g.ground_plane,
              crops |-> [i \in 1..Len(crops) |->
                           IF f = 0 \/ i <= f
                           THEN UpdateCrop(crops[i], g.ground_plane, ext).crop
                           ELSE crops[i]]]

-----------------------------------------------------------------------------
(* The scenes and the arguments of the calls                                *)

\* Point sets a ground plane is constructed with.  GroundAxis lies on the z
\* axis and inside one voxel of size VoxelSize.
GroundWide == <<<<0, 0, 0>>, <<1, 0, 0>>, <<0, 3, 0>>>>
GroundAxis == <<<<0, 0, 0>>, <<0, 0, 1>>>>
GroundPointSets == {GroundWide, GroundAxis}

\* Point sets the crops of a group are constructed with.  The second crop of
\* CropsWide lies inside one voxel of size VoxelSize; CropsAxis lies on the z axis.
CropsWide == <<<<<<1, 1, 0>>, <<1, 1, 2>>, <<1, 2, 4>>>>, <<<<2, 0, 0>>, <<2, 0, 1>>>>>>
CropsAxis == <<<<<<0, 0, 0>>, <<0, 0, 2>>>>>>
CropPointSets == {CropsWide, CropsAxis}

\* Extrinsics a scene is constructed with: none, a translation, and a matrix
\* whose homogeneous scale is -1.
ExtShift == <<<<1, 0, 0, 0>>, <<0, 1, 0, 0>>, <<0, 0, 1, 1>>, <<0, 0, 0, 1>>>>
ExtScaled == <<<<1, 0, 0, 2>>, <<0, 1, 0, 0>>, <<0, 0, 1, 0>>, <<0, 0, 0, -1>>>>
ConstructorExtrinsics == {None, ExtShift, ExtScaled}

Indexes == {0}

\* Poses: translation list and rotation list (roll, pitch, yaw in quarter
\* turns; a fourth entry, as of a quaternion, is never read).
PoseIdentity == [t |-> <<0, 0, 0>>, r |-> <<0, 0, 0, 1>>]
PoseShiftX == [t |-> <<1, 0, 0>>, r |-> <<0, 0, 0>>]
PoseYaw == [t |-> <<0, 0, 0>>, r |-> <<0, 0, 1>>]
PoseRollShift == [t |-> <<0, 1, 0>>, r |-> <<1, 0, 0>>]
PoseShortTranslation == [t |-> <<0, 1>>, r |-> <<0, 0, 0>>]
PoseShortRotation == [t |-> <<0, 0, 0>>, r |-> <<0, 0>>]

WorldBodyPoses == {PoseIdentity, PoseShiftX, PoseYaw, PoseShortTranslation, PoseShortRotation}
CameraBodyPoses == {PoseIdentity, PoseRollShift, PoseShortTranslation, PoseShortRotation}

Malformed(pose) == Len(pose.t) < 3 \/ Len(pose.r) < 3

\* Voxel sizes handed to downsample.  An optional float is None or the
\* one-element sequence <<size>>.
VoxelSize == 2
VoxelSizes == {None, <<VoxelSize>>}

\* Arguments of get_transformation_matrix.
Translations == {<<0, 1>>, <<0, 0, 0>>, <<1, 2, 3>>}
Rotations ==
    {<<a, b, c>> : a \in 0..3, b \in 0..3, c \in 0..3}
        \cup {<<>>, <<1, 1>>, <<0, 0, 0, 1>>, <<1, 0, 2, 1>>}

-----------------------------------------------------------------------------
(* State machine                                                            *)

Scene == [index |-> index, extrinsics |-> extrinsics,
          ground_plane |-> ground_plane, crop_group |-> crop_group]

PointsOf(gp, crops) ==
    [ground |-> gp.ps_3d, crops |-> [i \in 1..Len(crops) |-> crops[i].ps_3d]]

\* __init__: the fields are the arguments; the collaborators were constructed
\* upstream, with their features computed from their points.
Init ==
    /\ index \in Indexes
    /\ extrinsics \in ConstructorExtrinsics
    /\ \E g \in GroundPointSets : ground_plane = GroundPlaneOf(g)
    /\ \E c \in CropPointSets :
          crop_group = [i \in 1..Len(c) |-> CropOf(c[i], ground_plane)]
    /\ call = [op |-> "__init__", args |-> <<>>, outcome |-> "ok", ret |-> None]
    /\ pre = Scene
    /\ orig = PointsOf(ground_plane, crop_group)
    /\ k = 0
    /\ ncalls = 0

\* Mutant: the two voxel sizes handed to the wrong collaborators.
downsample_Swapped(crop_voxel_size, ground_plane_voxel_size) ==
    /\ ncalls < MaxCalls
    /\ crop_group' = IF ground_plane_voxel_size # None
                     THEN CropGroupDownsample(crop_group, ground_plane_voxel_size[1])
                     ELSE crop_group
    /\ ground_plane' = IF crop_voxel_size # None
                       THEN GroundPlaneDownsample(ground_plane, crop_voxel_size[1])
                       ELSE ground_plane
    /\ call' = [op |-> "downsample",
                args |-> <<crop_voxel_size, ground_plane_voxel_size>>,
                outcome |-> "ok", ret |-> None]
    /\ pre' = Scene
    /\ orig' = PointsOf(ground_plane', crop_group')
    /\ k' = 0
    /\ ncalls' = ncalls + 1
    /\ UNCHANGED <<index, extrinsics>>

downsample(crop_voxel_size, ground_plane_voxel_size) ==
    /\ ncalls < MaxCalls
    /\ crop_group' = IF crop_voxel_size # None
                     THEN CropGroupDownsample(crop_group, crop_voxel_size[1])
                     ELSE crop_group
    /\ ground_plane' = IF ground_plane_voxel_size # None
                       THEN GroundPlaneDownsample(ground_plane, ground_plane_voxel_size[1])
                       ELSE ground_plane
    /\ call' = [op |-> "downsample",
                args |-> <<crop_voxel_size, ground_plane_voxel_size>>,
                outcome |-> "ok", ret |-> None]
    /\ pre' = Scene
    /\ orig' = PointsOf(ground_plane', crop_group')
    /\ k' = 0
    /\ ncalls' = ncalls + 1
    /\ UNCHANGED <<index, extrinsics>>

add_extrinsics_information(world_body, camera_body) ==
    LET c == ComputeExtrinsics(extrinsics, world_body.t, world_body.r,
                               camera_body.t, camera_body.r)
        u == UpdateScene(ground_plane, crop_group, c.value)
    IN  /\ ncalls < MaxCalls
        /\ extrinsics' = c.value
        /\ ground_plane' = IF c.outcome = "ok" THEN u.ground_plane ELSE ground_plane
        /\ crop_group' = IF c.outcome = "ok" THEN u.crops ELSE crop_group
        /\ call' = [op |-> "add_extrinsics_information",
                    args |-> <<world_body, camera_body>>,
                    outcome |-> IF c.outcome = "ok" THEN u.outcome ELSE c.outcome,
                    ret |-> None]
        /\ pre' = Scene
        /\ k' = IF c.outcome = "ok" /\ u.outcome = "ok" THEN k + 1 ELSE k
        /\ ncalls' = ncalls + 1
        /\ UNCHANGED <<index, orig>>

\* The public utility: a pure function of its arguments.
GetTransformationMatrix(translation, rotation) ==
    LET m == get_transformation_matrix(translation, rotation)
    IN  /\ call' = [op |-> "get_transformation_matrix",
                    args |-> <<translation, rotation>>,
                    outcome |-> m.outcome, ret |-> m.value]
        /\ pre' = Scene
        /\ UNCHANGED <<index, extrinsics, ground_plane, crop_group, orig, k, ncalls>>

Downsample == \E cs \in VoxelSizes, gs \in VoxelSizes : downsample(cs, gs)

AddExtrinsicsInformation ==
    \E wb \in WorldBodyPoses, cb \in CameraBodyPoses : add_extrinsics_information(wb, cb)

Next == Downsample \/ AddExtrinsicsInformation

Spec == Init /\ [][Next]_vars

NextTM == \E t \in Translations, r \in Rotations : GetTransformationMatrix(t, r)

\* The scenes of Init, with get_transformation_matrix called on them.
SpecTM == Init /\ [][NextTM]_vars

-----------------------------------------------------------------------------
(* Vocabulary of the properties                                             *)

IsAdd == call.op = "add_extrinsics_information"
IsDownsample == call.op = "downsample"
IsGetTM == call.op = "get_transformation_matrix"

\* q is the image of p under the homogeneous transform E: E (p,1) = w (q,1)
\* for a scale w that is not 0.
Maps(E, p, q) ==
    LET h == MatVec4(E, <<p[1], p[2], p[3], 1>>)
    IN  h[4] # 0 /\ h = <<q[1] * h[4], q[2] * h[4], q[3] * h[4], h[4]>>

\* every point of qs is the image of the point of ps at the same place
MapsAll(E, ps, qs) ==
    Len(qs) = Len(ps) /\ \A i \in 1..Len(ps) : Maps(E, ps[i], qs[i])

RECURSIVE MatPow(_, _)
MatPow(E, n) == IF n = 0 THEN Identity4 ELSE MatMul4(E, MatPow(E, n - 1))

Points == PointsOf(ground_plane, crop_group)
PrePoints == PointsOf(pre.ground_plane, pre.crop_group)

\* the call transformed every point set of the scene by E
AllMapped(E, from, to) ==
    /\ MapsAll(E, from.ground, to.ground)
    /\ Len(to.crops) = Len(from.crops)
    /\ \A c \in 1..Len(from.crops) : MapsAll(E, from.crops[c], to.crops[c])

\* the features of the ground plane were all computed from its current points
GroundPlaneFresh(gp) == Len(gp.ps_3d) >= 2 /\ gp = GroundPlaneOf(gp.ps_3d)

\* the features of the crop were all computed from its current points and gp
CropFresh(crop, gp) == Len(crop.ps_3d) >= 2 /\ crop = CropOf(crop.ps_3d, gp)

-----------------------------------------------------------------------------
(* C1: once scene.extrinsics is set (not None), through the constructor or  *)
(* by an earlier add_extrinsics_information call, no later call changes it, *)
(* whatever poses that call is given.                                       *)
\* C1: a set extrinsics is never changed by a step.
C1_ExtrinsicsCached == [][extrinsics # None => extrinsics' = extrinsics]_vars

\* A second call, with well-formed poses that would give another matrix, has
\* left the matrix computed by the first call in place.
C1_Witness ==
    /\ IsAdd /\ call.outcome = "ok" /\ k = 2
    /\ pre.extrinsics # None
    /\ ~Malformed(call.args[1]) /\ ~Malformed(call.args[2])
    /\ ComputeExtrinsics(None, call.args[1].t, call.args[1].r,
                         call.args[2].t, call.args[2].r).value # extrinsics

-----------------------------------------------------------------------------
(* C2, as amended: every completed add_extrinsics_information call,         *)
(* whether it computed the extrinsics or reused the cached one, applies     *)
(* scene.extrinsics exactly once to every ground-plane point and to every   *)
(* point of every crop; after k completed calls with no downsample in       *)
(* between each point is the image of its original value under the k-th     *)
(* power of the extrinsics; a call moves every point that the extrinsics    *)
(* does not map to itself, and moves none when the extrinsics is the        *)
(* identity.                                                                *)
\* C2 (amended): each completed call maps every point once; k calls map it k times.
C2_AppliedOncePerCall ==
    (IsAdd /\ call.outcome = "ok") =>
        /\ AllMapped(extrinsics, PrePoints, Points)
        /\ AllMapped(MatPow(extrinsics, k), orig, Points)
        /\ \A i \in 1..Len(Points.ground) :
              Points.ground[i] = PrePoints.ground[i]
                  <=> Maps(extrinsics, PrePoints.ground[i], PrePoints.ground[i])
        /\ \A c \in 1..Len(Points.crops) : \A i \in 1..Len(Points.crops[c]) :
              Points.crops[c][i] = PrePoints.crops[c][i]
                  <=> Maps(extrinsics, PrePoints.crops[c][i], PrePoints.crops[c][i])
        /\ (extrinsics = Identity4 => Points = PrePoints)

\* A second completed call on a cached extrinsics that is not the identity has
\* moved the points again.
C2_Witness ==
    /\ IsAdd /\ call.outcome = "ok" /\ k = 2
    /\ pre.extrinsics = extrinsics /\ extrinsics # Identity4
    /\ Points # PrePoints /\ PrePoints # orig

(* C2 as stated: as above, and a second call is not a no-op unless the      *)
(* extrinsics is the identity.                                              *)
\* C2 (as stated): a second call under a non-identity extrinsics changes the scene.
C2_SecondCallNotNoOp ==
    (IsAdd /\ call.outcome = "ok") =>
        /\ AllMapped(extrinsics, PrePoints, Points)
        /\ AllMapped(MatPow(extrinsics, k), orig, Points)
        /\ (k >= 2 /\ extrinsics # Identity4 => Scene # pre)

-----------------------------------------------------------------------------
(* C3: on a scene whose extrinsics is None, add_extrinsics_information sets *)
(* extrinsics to T_world_body times the inverse of T_camera_body (so that   *)
(* extrinsics times T_camera_body is T_world_body); with zero translations  *)
(* and zero rotations for both poses the extrinsics is the identity and     *)
(* every point keeps its value; with world-body translation [1,0,0], zero   *)
(* rotation and an identity camera-body pose, a ground point [0,0,0]        *)
(* becomes [1,0,0].                                                         *)
ZeroPose(pose) ==
    /\ SubSeq(pose.t, 1, 3) = <<0, 0, 0>>
    /\ SubSeq(pose.r, 1, 3) = <<0, 0, 0>>

\* C3: the first call's extrinsics is T_world_body * T_camera_body^-1.
C3_ExtrinsicsIsWorldBodyTimesInverse ==
    (IsAdd /\ pre.extrinsics = None /\ call.outcome \in {"ok", "NumericalDegeneracy"}) =>
        LET wb == call.args[1]
            cb == call.args[2]
            t_world_body == get_transformation_matrix(wb.t, wb.r).value
            t_camera_body == get_transformation_matrix(cb.t, cb.r).value
        IN  /\ extrinsics # None
            /\ MatMul4(extrinsics, t_camera_body) = t_world_body
            /\ (ZeroPose(wb) /\ ZeroPose(cb)) =>
                  extrinsics = Identity4 /\ Points = PrePoints
            /\ (wb.t = <<1, 0, 0>> /\ ZeroPose([wb EXCEPT !.t = <<0, 0, 0>>]) /\ ZeroPose(cb)) =>
                  \A i \in 1..Len(PrePoints.ground) :
                      PrePoints.ground[i] = <<0, 0, 0>> => Points.ground[i] = <<1, 0, 0>>

\* The scenario of the unit translation: a ground point at the origin moved to
\* [1,0,0] by the first call.
C3_Witness ==
    /\ IsAdd /\ pre.extrinsics = None /\ call.outcome = "ok"
    /\ call.args = <<PoseShiftX, PoseIdentity>>
    /\ PrePoints.ground[1] = <<0, 0, 0>> /\ Points.ground[1] = <<1, 0, 0>>

-----------------------------------------------------------------------------
(* C4: after every public operation that mutates a point set                *)
(* (add_extrinsics_information, downsample) has returned, the derived       *)
(* features of the ground plane and of every crop have been recomputed from *)
(* the current points.                                                      *)
\* C4: after a returned add_extrinsics_information or downsample all features are fresh.
C4_FeaturesFollowPoints ==
    ((IsAdd \/ IsDownsample) /\ call.outcome = "ok") =>
        /\ GroundPlaneFresh(ground_plane)
        /\ \A c \in 1..Len(crop_group) : CropFresh(crop_group[c], ground_plane)

-----------------------------------------------------------------------------
(* C5: downsample treats its two arguments independently: the crop group is *)
(* downsampled if and only if crop_voxel_size is not None, the ground plane *)
(* if and only if ground_plane_voxel_size is not None; a point set whose    *)
(* size is None is left unchanged, and the call changes neither             *)
(* scene.extrinsics, scene.index nor any derived feature.                   *)
\* C5: downsample changes exactly the point sets whose size is not None.
C5_DownsampleFrame ==
    IsDownsample =>
        LET crop_voxel_size == call.args[1]
            ground_plane_voxel_size == call.args[2]
        IN  /\ Points.ground =
                  IF ground_plane_voxel_size = None THEN PrePoints.ground
                  ELSE VoxelDownSample(PrePoints.ground, ground_plane_voxel_size[1])
            /\ Len(Points.crops) = Len(PrePoints.crops)
            /\ \A c \in 1..Len(Points.crops) :
                  Points.crops[c] =
                      IF crop_voxel_size = None THEN PrePoints.crops[c]
                      ELSE VoxelDownSample(PrePoints.crops[c], crop_voxel_size[1])
            /\ extrinsics = pre.extrinsics
            /\ index = pre.index
            /\ [ground_plane EXCEPT !.ps_3d = <<>>] = [pre.ground_plane EXCEPT !.ps_3d = <<>>]
            /\ \A c \in 1..Len(crop_group) :
                  [crop_group[c] EXCEPT !.ps_3d = <<>>] = [pre.crop_group[c] EXCEPT !.ps_3d = <<>>]

\* Only the ground plane was given a size: its points were thinned out, the
\* crops kept theirs.
C5_Witness ==
    /\ IsDownsample
    /\ call.args = <<None, <<VoxelSize>>>>
    /\ Len(Points.ground) < Len(PrePoints.ground)
    /\ Points.crops = PrePoints.crops
    /\ \E c \in 1..Len(PrePoints.crops) :
          VoxelDownSample(PrePoints.crops[c], VoxelSize) # PrePoints.crops[c]

-----------------------------------------------------------------------------
(* C6: every add_extrinsics_information call given a malformed pose (a      *)
(* translation list with fewer than 3 entries or a rotation list with fewer *)
(* than 3) fails with an error instead of transforming points, both when    *)
(* the extrinsics is absent and when it is cached.                          *)
\* C6: a call with a malformed pose raises and transforms no point.
C6_MalformedPoseFails ==
    (IsAdd /\ (Malformed(call.args[1]) \/ Malformed(call.args[2]))) =>
        call.outcome = "IndexError" /\ Points = PrePoints

-----------------------------------------------------------------------------
(* C7: when the ground plane's point set or a crop's point set has fewer    *)
(* than 2 points, the feature recomputation of add_extrinsics_information   *)
(* raises a numerical-degeneracy error, and the principal directions,       *)
(* normal vector and plane coefficients of such a ground plane, the growth  *)
(* vector and emerging point of such a crop, are not assigned.              *)
ReachedRecomputation == IsAdd /\ call.outcome \in {"ok", "NumericalDegeneracy"}

\* C7: a point set with fewer than 2 points makes the recomputation raise.
C7_DegeneratePointSetRaises ==
    ReachedRecomputation =>
        /\ (Len(pre.ground_plane.ps_3d) < 2
              \/ \E c \in 1..Len(pre.crop_group) : Len(pre.crop_group[c].ps_3d) < 2)
           => call.outcome = "NumericalDegeneracy"
        /\ Len(pre.ground_plane.ps_3d) < 2 =>
              /\ ground_plane.ground_vectors = pre.ground_plane.ground_vectors
              /\ ground_plane.normal_vector = pre.ground_plane.normal_vector
              /\ ground_plane.coeficients = pre.ground_plane.coeficients
        /\ \A c \in 1..Len(pre.crop_group) :
              Len(pre.crop_group[c].ps_3d) < 2 =>
                  /\ crop_group[c].crop_vector = pre.crop_group[c].crop_vector
                  /\ crop_group[c].emerging_point = pre.crop_group[c].emerging_point

\* The ground plane was recomputed, the second crop had one point left: the
\* call raised there, the crop's points moved and its growth vector is still
\* the one of its two points of before the downsampling.
C7_Witness ==
    /\ ReachedRecomputation /\ call.outcome = "NumericalDegeneracy"
    /\ Len(pre.ground_plane.ps_3d) >= 2
    /\ GroundPlaneFresh(ground_plane)
    /\ Len(crop_group) = 2 /\ Len(crop_group[2].ps_3d) = 1
    /\ crop_group[2].ps_3d # pre.crop_group[2].ps_3d
    /\ Len(crop_group[2].crop_vector.of) = 2

-----------------------------------------------------------------------------
(* C8, as amended: for every translation with at least 3 entries and every  *)
(* rotation with at least 3 entries, get_transformation_matrix returns a    *)
(* 4x4 matrix whose bottom row is [0,0,0,1], whose last column holds the    *)
(* translation and whose upper-left 3x3 block is R_yaw * R_pitch * R_roll   *)
(* with roll, pitch, yaw read from rotation positions 0, 1, 2 (determinant  *)
(* 1); with a shorter list the call raises IndexError; the call reads no    *)
(* scene state and changes none.                                            *)

\* The product R_yaw * R_pitch * R_roll written out, entry by entry.
YawPitchRoll(roll, pitch, yaw) ==
    LET cr == Cos(roll)  sr == Sin(roll)
        cp == Cos(pitch) sp == Sin(pitch)
        cy == Cos(yaw)   sy == Sin(yaw)
    IN  <<<<cy * cp, cy * sp * sr - sy * cr, cy * sp * cr + sy * sr>>,
          <<sy * cp, sy * sp * sr + cy * cr, sy * sp * cr - cy * sr>>,
          <<-sp, cp * sr, cp * cr>>>>

IsTransformOf(M, translation, rotation) ==
    LET R == <<SubSeq(M[1], 1, 3), SubSeq(M[2], 1, 3), SubSeq(M[3], 1, 3)>>
    IN  /\ Len(M) = 4 /\ \A i \in 1..4 : Len(M[i]) = 4
        /\ M[4] = <<0, 0, 0, 1>>
        /\ <<M[1][4], M[2][4], M[3][4]>> = SubSeq(translation, 1, 3)
        /\ R = YawPitchRoll(rotation[1], rotation[2], rotation[3])
        /\ Det3(R) = 1

-----------------------------------------------------------------------------
(* C9: within one add_extrinsics_information call the ground plane's points *)
(* are transformed and its average point, principal directions, normal      *)
(* vector and plane coefficients recomputed before any crop's emerging      *)
(* point is computed, and each crop's emerging point is computed after that *)
(* crop's points were transformed and its average point and growth vector   *)
(* recomputed: an emerging point computed by the call reads the ground      *)
(* plane and the crop as the call leaves them.                              *)
ReadsCurrent(crop, gp) ==
    /\ crop.emerging_point.plane_coeficients = gp.coeficients
    /\ crop.emerging_point.plane_normal = gp.normal_vector
    /\ gp.coeficients.plane_point = Average(gp.ps_3d)
    /\ gp.normal_vector.cross = gp.ground_vectors
    /\ \A d \in 1..2 : gp.ground_vectors[d].of = gp.ps_3d
    /\ crop.emerging_point.line_point = Average(crop.ps_3d)
    /\ crop.emerging_point.line_vector.of = crop.ps_3d
    /\ crop.crop_vector_angles.angles_of = crop.emerging_point.line_vector

\* C9: emerging points are computed on the updated ground plane and crop.
C9_EmergingPointReadsUpdatedPlane ==
    ReachedRecomputation =>
        /\ call.outcome = "ok" =>
              /\ AllMapped(extrinsics, PrePoints, Points)
              /\ \A c \in 1..Len(crop_group) : ReadsCurrent(crop_group[c], ground_plane)
        /\ \A c \in 1..Len(crop_group) :
              \/ crop_group[c].emerging_point = pre.crop_group[c].emerging_point
              \/ /\ MapsAll(extrinsics, pre.ground_plane.ps_3d, ground_plane.ps_3d)
                 /\ MapsAll(extrinsics, pre.crop_group[c].ps_3d, crop_group[c].ps_3d)
                 /\ ReadsCurrent(crop_group[c], ground_plane)

\* A completed call that moved the ground plane and the crops.
C9_Witness ==
    /\ IsAdd /\ call.outcome = "ok"
    /\ ground_plane.ps_3d # pre.ground_plane.ps_3d
    /\ ground_plane.coeficients # pre.ground_plane.coeficients
    /\ Len(crop_group) = 2
    /\ \A c \in 1..2 : crop_group[c].emerging_point # pre.crop_group[c].emerging_point

-----------------------------------------------------------------------------
(* C10: if add_extrinsics_information on a scene with absent extrinsics     *)
(* fails while computing the extrinsics (a malformed pose list, a failing   *)
(* inversion), the scene is left exactly as before the call: extrinsics     *)
(* stays None, no point and no derived feature is modified, and a later     *)
(* call with valid poses still computes the extrinsics.                     *)
\* C10: a failed extrinsics computation leaves the scene as it was.
C10_FailedComputationLeavesScene ==
    (IsAdd /\ pre.extrinsics = None /\ call.outcome \in {"IndexError", "LinAlgError"}) =>
        /\ Scene = pre
        /\ extrinsics = None
        /\ \A wb \in WorldBodyPoses, cb \in CameraBodyPoses :
              (~Malformed(wb) /\ ~Malformed(cb)) =>
                  LET c == ComputeExtrinsics(extrinsics, wb.t, wb.r, cb.t, cb.r)
                  IN  /\ c.outcome = "ok"
                      /\ MatMul4(c.value, get_transformation_matrix(cb.t, cb.r).value)
                            = get_transformation_matrix(wb.t, wb.r).value

\* The world-body pose was well formed and the camera-body pose was not: the
\* call failed after the first matrix had been built.
C10_Witness ==
    /\ IsAdd /\ pre.extrinsics = None /\ call.outcome = "IndexError"
    /\ ~Malformed(call.args[1]) /\ Malformed(call.args[2])
    /\ call.args[1] # PoseIdentity

====
